---- MODULE Spec2Model ----
(***************************************************************************)
(* Mean-field theory of the multi-area model: the Theory class of          *)
(* multiarea_model/theory.py as a state machine.                           *)
(*                                                                         *)
(* Numbers are integers.  mu and sigma2 are held in units of 1e-3, so the  *)
(* factor tau_m * 1e-3 of the source is a multiplication by tau_m; the     *)
(* Runge-Kutta update divides with \div (fixed-point rounding).  Arrays    *)
(* are sequences, matrices are sequences of rows.  A numpy array that the  *)
(* source aliases (K = self.network.K_matrix) is the variable itself; a    *)
(* copy (copy(self.network.K_matrix)) is a value the variable never sees.  *)
(***************************************************************************)
EXTENDS Integers, Sequences, FiniteSets, TLC

(***************************************************************************)
(* Bounds of the model.                                                    *)
(***************************************************************************)
\* population rates handed to the entry points range over 0..MaxRate
MaxRate == 1
\* the simulated time T ranges over 0..MaxT
MaxT == 3
\* initial_rates_iter ranges over 1..MaxIter
MaxIter == 2

(***************************************************************************)
(* The network collaborator (self.network) and the configuration.          *)
(***************************************************************************)
area_list == <<"V1", "V2">>

\* area -> its populations, as indices into structure_vec
structure == [V1 |-> <<1, 2>>, V2 |-> <<3>>]

RECURSIVE FlattenAreas(_)
FlattenAreas(n) ==
    IF n = 0 THEN <<>> ELSE FlattenAreas(n - 1) \o structure[area_list[n]]

structure_vec == FlattenAreas(Len(area_list))

Dim == Len(structure_vec)
Pops == 1..Dim
\* the columns of K and J: one per population, the last one the external drive
Cols == 1..(Dim + 1)
ExtCol == Dim + 1

area_of ==
    [p \in Pops |->
       CHOOSE a \in DOMAIN structure : \E k \in DOMAIN structure[a] : structure[a][k] = p]

AreaOf(p) == area_of[p]

single_neuron_dict ==
    [V_th |-> -50, E_L |-> -65, V_reset |-> -65, tau_m |-> 10,
     tau_syn_ex |-> 1, t_ref |-> 2, C_m |-> 250]

\* self.params['input_params']['rate_ext'] and the network's own rate_ext
theory_rate_ext == 10
network_rate_ext == 10

add_DC_drive == [p \in Pops |-> IF p = 1 THEN 1 ELSE 0]

\* the rates read from replace_cc_input_source, flattened by dict_to_vector
replace_cc_input_source == [p \in Pops |-> p]

ReplaceModes == {"off", "hom_poisson_stat", "het_poisson_stat", "het_current_nonstat"}
StationaryModes == {"hom_poisson_stat", "het_poisson_stat"}

\* indegrees the network may be built with (row = target, last column external)
KChoices ==
    { << <<2, 1, 6, 3>>, <<1, 2, 6, 3>>, <<6, 6, 2, 3>> >>,
      << <<2, 1, 0, 3>>, <<1, 2, 6, 3>>, <<6, 0, 2, 3>> >> }

JChoices ==
    { << <<1, -2, 1, 1>>, <<1, -2, 1, 1>>, <<1, 1, -2, 1>> >> }

RateVectors == [Pops -> 0..MaxRate]

(***************************************************************************)
(* Theory.__init__: the derived neuron parameters.                         *)
(***************************************************************************)
NP ==
    [theta   |-> single_neuron_dict.V_th - single_neuron_dict.E_L,
     V_reset |-> single_neuron_dict.V_reset - single_neuron_dict.E_L,
     tau_m   |-> single_neuron_dict.tau_m,
     tau_syn |-> single_neuron_dict.tau_syn_ex,
     t_ref   |-> single_neuron_dict.t_ref,
     tau     |-> 1]

(***************************************************************************)
(* numpy helpers.                                                          *)
(***************************************************************************)
RECURSIVE SumTo(_, _)
SumTo(f, n) == IF n = 0 THEN 0 ELSE SumTo(f, n - 1) + f[n]

\* np.dot(row, v)
Dot(row, v) == SumTo([j \in 1..Len(v) |-> row[j] * v[j]], Len(v))

\* the root between lo and hi, lo * lo <= x < hi * hi
RECURSIVE SqrtBetween(_, _, _)
SqrtBetween(x, lo, hi) ==
    IF hi - lo <= 1 THEN lo
    ELSE LET mid == (lo + hi) \div 2
         IN  IF mid * mid <= x THEN SqrtBetween(x, mid, hi) ELSE SqrtBetween(x, lo, mid)

\* a power of two whose square exceeds x
RECURSIVE SqrtAbove(_, _)
SqrtAbove(x, h) == IF h * h > x THEN h ELSE SqrtAbove(x, 2 * h)

\* np.sqrt on a non-negative number, rounded down
Sqrt(x) == SqrtBetween(x, 0, SqrtAbove(x, 1))

Min(a, b) == IF a < b THEN a ELSE b

\* Body applied to the value of v, which is computed once
With(v, Body(_)) == CHOOSE r \in {Body(x) : x \in {v}} : TRUE

\* the array f with every entry computed
RECURSIVE ArrayUpTo(_, _)
ArrayUpTo(f, n) == IF n = 0 THEN <<>> ELSE Append(ArrayUpTo(f, n - 1), f[n])

Array(f) == ArrayUpTo(f, Len(f))

NoFilter == [given |-> FALSE, sel |-> {}]
Filter(s) == [given |-> TRUE, sel |-> s]

\* a[np.logical_not(filter)] = 0. on a matrix
ZeroOutside(M, sel) ==
    [i \in Pops |-> [j \in Cols |-> IF <<i, j>> \in sel THEN M[i][j] ELSE 0]]

\* create_mask(structure, cortico_cortical=True, external=False): target and
\* source population lie in different areas; never the external column
create_mask ==
    {<<i, j>> \in Pops \X Cols : j # ExtCol /\ AreaOf(i) # AreaOf(j)}

\* K[mask] = 0.
ZeroMask(M, mask) ==
    [i \in Pops |-> [j \in Cols |-> IF <<i, j>> \in mask THEN 0 ELSE M[i][j]]]

(***************************************************************************)
(* Theory.replace_cc_input.  Kn, Jn: the network's matrices as they are    *)
(* now; cc: self.cc_input_rates.                                           *)
(***************************************************************************)
Unset == [set |-> FALSE, v |-> <<>>]

cc_rates_after(mode, cc) ==
    IF mode = "het_poisson_stat" THEN [set |-> TRUE, v |-> replace_cc_input_source]
    ELSE IF mode = "hom_poisson_stat"
         THEN [set |-> TRUE, v |-> [p \in Pops |-> 1 * network_rate_ext]]
         ELSE cc

\* one entry of np.dot(K_CC * J_CC**e, rate_vector), times tau
CCTerm(Kn, Jn, rv, i, e) ==
    NP.tau_m * SumTo([j \in Pops |->
                        IF AreaOf(j) # AreaOf(i)
                        THEN Kn[i][j] * (IF e = 1 THEN Jn[i][j] ELSE Jn[i][j] * Jn[i][j]) * rv[j]
                        ELSE 0], Dim)

replace_cc_input(mode, Kn, Jn, cc) ==
    With(cc_rates_after(mode, cc), LAMBDA cc2 :
        IF ~cc2.set
        THEN [err |-> "AttributeError", mu_CC |-> <<>>, sigma2_CC |-> <<>>,
              cc_input_rates |-> cc2]
        ELSE [err |-> "none",
              mu_CC |-> Array([i \in Pops |-> CCTerm(Kn, Jn, cc2.v, i, 1)]),
              sigma2_CC |-> Array([i \in Pops |-> CCTerm(Kn, Jn, cc2.v, i, 2)]),
              cc_input_rates |-> cc2])

(***************************************************************************)
(* Theory.mu_sigma.  The result carries the network's K_matrix and the     *)
(* object's cc_input_rates as the call leaves them.                        *)
(***************************************************************************)
\* the object has no attribute dim_ext: nothing in the class assigns it
TheoryAttributes == {"params", "custom_params", "network", "NP", "label", "t", "cc_input_rates"}

\* the network's K_matrix after K[mask] = 0: K is the network's own array
\* unless a matrix_filter made it a copy
LocalZeroing(Kn, matrix_filter) ==
    IF matrix_filter.given THEN Kn ELSE ZeroMask(Kn, create_mask)

\* K and J as mu_sigma uses them
LocalK(mode, Kn, matrix_filter) ==
    LET K == IF matrix_filter.given THEN ZeroOutside(Kn, matrix_filter.sel) ELSE Kn
    IN  IF mode \in StationaryModes THEN ZeroMask(K, create_mask) ELSE K

LocalJ(Jn, matrix_filter) ==
    IF matrix_filter.given THEN ZeroOutside(Jn, matrix_filter.sel) ELSE Jn

\* the override term: replace_cc_input's, or zeros
cc_term(mode, Kn, Jn, cc, rates) ==
    IF mode \in StationaryModes
    THEN replace_cc_input(mode, Kn, Jn, cc)
    ELSE [err |-> "none", mu_CC |-> [p \in DOMAIN rates |-> 0],
          sigma2_CC |-> [p \in DOMAIN rates |-> 0], cc_input_rates |-> cc]

\* lines 355-358: the rates with the external channel appended
full_rates(rates, external) ==
    IF external THEN [err |-> "none", v |-> rates \o <<theory_rate_ext>>]
    ELSE IF "dim_ext" \notin TheoryAttributes THEN [err |-> "AttributeError", v |-> <<>>]
    ELSE [err |-> "none", v |-> rates \o <<0>>]

\* lines 353-367: mu and sigma from the local K and J, the override term rc
\* and the full rate vector
statistics(K, J, rc, full) ==
    LET mu == [i \in Pops |->
                 NP.tau_m * Dot([j \in Cols |-> K[i][j] * J[i][j]], full) + rc.mu_CC[i]
                 + (1000 * NP.tau_m * add_DC_drive[i]) \div single_neuron_dict.C_m]
        sigma2 == [i \in Pops |->
                 NP.tau_m * Dot([j \in Cols |-> K[i][j] * J[i][j] * J[i][j]], full)
                 + rc.sigma2_CC[i]]
    IN  [mu |-> Array(mu), sigma |-> Array([i \in Pops |-> Sqrt(sigma2[i])])]

mu_sigma(mode, Kn, Jn, cc, rates, external, matrix_filter) ==
    With(cc_term(mode, Kn, Jn, cc, rates), LAMBDA rc :
      With(<<LocalK(mode, Kn, matrix_filter), LocalJ(Jn, matrix_filter),
             full_rates(rates, external)>>, LAMBDA KJ :
        LET Knet == IF mode \in StationaryModes /\ rc.err = "none"
                    THEN LocalZeroing(Kn, matrix_filter) ELSE Kn
            full == KJ[3]
        IN  IF rc.err # "none"
            THEN [err |-> rc.err, mu |-> <<>>, sigma |-> <<>>,
                  K_matrix |-> Knet, cc_input_rates |-> rc.cc_input_rates]
            ELSE IF full.err # "none"
            THEN [err |-> full.err, mu |-> <<>>, sigma |-> <<>>,
                  K_matrix |-> Knet, cc_input_rates |-> rc.cc_input_rates]
            ELSE With(statistics(KJ[1], KJ[2], rc, full.v), LAMBDA st :
                   [err |-> "none", mu |-> st.mu, sigma |-> st.sigma,
                    K_matrix |-> Knet, cc_input_rates |-> rc.cc_input_rates])))

(***************************************************************************)
(* The transfer function (theory_helpers.nu0_fb) and Theory.nu0_fb.        *)
(***************************************************************************)
\* the stationary rate: non-negative, finite (at most 1/t_ref), non-decreasing in mu
siegert(mu, sigma, tau_m, tau_syn, t_ref, theta, V_reset) ==
    IF mu + sigma <= theta + V_reset THEN 0
    ELSE Min((mu + sigma - theta - V_reset) \div tau_m, 1000 \div t_ref)

nu0_fb(arg) ==
    siegert(arg[1], arg[2], NP["tau_m"], NP["tau_syn"], NP["t_ref"], NP["theta"], NP["V_reset"])

\* zip(mu, sigma)
Zip(mu, sigma) == [i \in DOMAIN mu |-> <<mu[i], sigma[i]>>]

\* [self.nu0_fb((m, s)) for m, s in zip(mu, sigma)]
list_map(args) == [i \in DOMAIN args |-> nu0_fb(args[i])]

\* the values in the order in which the workers finished (imap_unordered)
pool_gather_unordered(done) == [i \in 1..Len(done) |-> done[i][2]]

\* pool.map(self.nu0_fb, zip(mu, sigma)) from the results the workers handed
\* back: done is the sequence of <<unit, value>> in completion order, and
\* map returns the values in the order of the units
pool_gather(done) ==
    [i \in 1..Len(done) |-> done[CHOOSE k \in DOMAIN done : done[k][1] = i][2]]

(***************************************************************************)
(* Theory.Phi.  new_rates -= rates rebinds or updates new_rates; the       *)
(* caller's array rates is an operand only.                                *)
(***************************************************************************)
\* new_rates -= rates: <<new_rates, rates>> afterwards
leak(new_rates, rates) ==
    << [i \in DOMAIN new_rates |-> new_rates[i] - rates[i]], rates >>

\* the part of Phi after the transfer function has been mapped
Phi_finish(ms, new_rates, rates, return_mu_sigma, return_leak) ==
    LET lr == IF return_leak THEN leak(new_rates, rates) ELSE <<new_rates, rates>>
    IN  [err |-> "none", new_rates |-> Array(lr[1]), rates_after |-> lr[2],
         mu |-> IF return_mu_sigma THEN ms.mu ELSE <<>>,
         sigma |-> IF return_mu_sigma THEN ms.sigma ELSE <<>>,
         K_matrix |-> ms.K_matrix, cc_input_rates |-> ms.cc_input_rates]

Phi(mode, Kn, Jn, cc, rates, parallel, return_mu_sigma, return_leak) ==
    With(mu_sigma(mode, Kn, Jn, cc, rates, TRUE, NoFilter), LAMBDA ms :
        IF ms.err # "none"
        THEN [err |-> ms.err, new_rates |-> <<>>, rates_after |-> rates,
              mu |-> <<>>, sigma |-> <<>>,
              K_matrix |-> ms.K_matrix, cc_input_rates |-> ms.cc_input_rates]
        ELSE With(Array(Zip(ms.mu, ms.sigma)), LAMBDA units :
               Phi_finish(ms,
                          IF parallel
                          THEN pool_gather([i \in DOMAIN units |-> <<i, nu0_fb(units[i])>>])
                          ELSE list_map(units),
                          rates, return_mu_sigma, return_leak)))

(***************************************************************************)
(* Theory.stability_matrix and Theory.lambda_max.  An array of the result  *)
(* is a term: the formula of the source over the values it was built from. *)
(***************************************************************************)
\* self.NP[key] raises KeyError unless the constructor defined the key
NPHas(key) == key \in DOMAIN NP

SelSeq(v, sel) ==
    LET idx == {i \in DOMAIN v : i \in sel}
        RECURSIVE Build(_)
        Build(n) == IF n = 0 THEN <<>>
                    ELSE IF n \in idx THEN Append(Build(n - 1), v[n]) ELSE Build(n - 1)
    IN  Build(Len(v))

\* the tuple of full_output=True, in the order of the return statement
StabilityTuple == <<"M", "slope", "slope_sigma", "M", "C", "V", "G_N", "J", "N_pre">>

\* the names lambda_max unpacks that tuple into
LambdaTargets == <<"M", "slope", "slope_sigma", "M", "EV", "C", "V", "G_N">>

StabilityFail(e, steps, ms) ==
    [err |-> e, steps |-> steps, size |-> 0, tuple |-> <<>>,
     K_matrix |-> ms.K_matrix, cc_input_rates |-> ms.cc_input_rates]

\* the part of stability_matrix after line 397, mu, sigma = self.mu_sigma(rates)
stability_rest(ms, Nsize, vector_filter, full_output) ==
    LET mu == IF vector_filter.given THEN SelSeq(ms.mu, vector_filter.sel) ELSE ms.mu
        sigma == IF vector_filter.given THEN SelSeq(ms.sigma, vector_filter.sel) ELSE ms.sigma
        slope == [ii \in 1..Nsize |-> [f |-> "d_nu_d_mu", theta |-> "V_th",
                                       mu |-> mu[ii], sigma |-> sigma[ii]]]
        slope_sigma == [ii \in 1..Nsize |-> [f |-> "d_nu_d_sigma", theta |-> "V_th",
                                             mu |-> mu[ii], sigma |-> sigma[ii]]]
        val(name) == CASE name = "slope" -> slope
                       [] name = "slope_sigma" -> slope_sigma
                       [] OTHER -> [array |-> name, rows |-> Nsize, cols |-> Nsize]
    IN  IF ms.err # "none"
        THEN StabilityFail(ms.err, <<"mu_sigma">>, ms)
        ELSE IF Nsize > 0 /\ ~NPHas("V_th")
        THEN StabilityFail("KeyError", <<"mu_sigma">>, ms)
        ELSE IF Nsize > Len(mu)
        THEN StabilityFail("IndexError", <<"mu_sigma">>, ms)
        ELSE [err |-> "none", steps |-> <<"mu_sigma", "slope", "slope_sigma">>,
              size |-> Nsize,
              tuple |-> IF full_output
                        THEN [k \in DOMAIN StabilityTuple |->
                                [name |-> StabilityTuple[k], val |-> val(StabilityTuple[k])]]
                        ELSE << [name |-> "M", val |-> val("M")] >>,
              K_matrix |-> ms.K_matrix, cc_input_rates |-> ms.cc_input_rates]

stability_matrix(mode, Kn, Jn, cc, rates, matrix_filter, vector_filter, full_output) ==
    LET same == [err |-> "none", K_matrix |-> Kn, cc_input_rates |-> cc]
        nsel == Cardinality(vector_filter.sel)
    IN  IF matrix_filter.given /\ ~vector_filter.given
        THEN StabilityFail("AssertionError", <<>>, same)
        ELSE IF matrix_filter.given /\ nsel * (nsel + 1) # Cardinality(matrix_filter.sel)
        THEN StabilityFail("AssertionError", <<>>, same)
        ELSE With(mu_sigma(mode, Kn, Jn, cc, rates, TRUE, NoFilter), LAMBDA ms :
               stability_rest(ms, IF matrix_filter.given THEN nsel ELSE Dim,
                              vector_filter, full_output))

\* the value a name of lambda_max holds after the tuple was unpacked into
\* targets: the last target of that name wins
Bound(targets, tuple, name) ==
    LET ks == {k \in DOMAIN targets : targets[k] = name}
        last == CHOOSE k \in ks : \A l \in ks : l <= k
    IN  tuple[last].val

\* the names lambda_max returns after lambda_max itself
LambdaReturns == <<"slope", "slope_sigma", "M", "EV", "C", "V">>

\* the part of lambda_max after stability_matrix has returned sm
lambda_rest(sm, full_output) ==
    LET fail(e) == [err |-> e, steps |-> sm.steps, value |-> <<>>,
                    K_matrix |-> sm.K_matrix, cc_input_rates |-> sm.cc_input_rates]
        M == IF full_output THEN Bound(LambdaTargets, sm.tuple, "M") ELSE sm.tuple[1].val
        lam == [f |-> "sqrt_max_real_eig", M |-> M]
        out(name) == IF name = "EV" THEN [f |-> "eig", M |-> M]
                     ELSE Bound(LambdaTargets, sm.tuple, name)
    IN  IF sm.err # "none" THEN fail(sm.err)
        ELSE IF full_output /\ Len(sm.tuple) > Len(LambdaTargets)
        THEN fail("ValueError: too many values to unpack")
        ELSE IF full_output /\ Len(sm.tuple) < Len(LambdaTargets)
        THEN fail("ValueError: not enough values to unpack")
        \* np.max of the eigenvalues of a 0 x 0 matrix
        ELSE IF sm.size = 0 THEN fail("ValueError: zero-size array")
        ELSE [err |-> "none", steps |-> sm.steps,
              value |-> IF full_output
                        THEN << [name |-> "lambda_max", val |-> lam] >> \o
                             [k \in DOMAIN LambdaReturns |->
                                [name |-> LambdaReturns[k], val |-> out(LambdaReturns[k])]]
                        ELSE << [name |-> "lambda_max", val |-> lam] >>,
              K_matrix |-> sm.K_matrix, cc_input_rates |-> sm.cc_input_rates]

lambda_max(mode, Kn, Jn, cc, rates, matrix_filter, vector_filter, full_output) ==
    With(stability_matrix(mode, Kn, Jn, cc, rates, matrix_filter, vector_filter, full_output),
         LAMBDA sm : lambda_rest(sm, full_output))

(***************************************************************************)
(* Theory.initial_rates and numpy's process-wide random generator.  The    *)
(* generator is a linear congruential one over 0..RandomModulus-1; a draw  *)
(* of np.random.rand is state / RandomModulus.                             *)
(***************************************************************************)
RandomModulus == 8

\* rng_seed=123, the default of initial_rates
rng_seed == 123

\* rate_max=1000., as integrate_siegert_python passes it
rate_max == 1000

\* np.random.seed(seed): the state afterwards
np_random_seed(seed) == seed % RandomModulus

\* np.random.rand(dim): << the state afterwards, the dim numbers drawn >>
RECURSIVE np_random_rand(_, _)
np_random_rand(s, dim) ==
    IF dim = 0 THEN << s, <<>> >>
    ELSE LET r == np_random_rand(s, dim - 1)
             s2 == (5 * r[1] + 3) % RandomModulus
         IN  << s2, Append(r[2], s2) >>

\* rate_max * np.random.rand(dim)
scaled(draws) == [p \in DOMAIN draws |-> (rate_max * draws[p]) \div RandomModulus]

\* the generator object initial_rates(num_iter, dim) returns: its body has
\* not run yet, np.random.seed runs when the first value is asked for
initial_rates(num_iter, dim) ==
    [kind |-> "random_uniform", num_iter |-> num_iter, dim |-> dim,
     started |-> FALSE, n |-> 0, vector |-> <<>>]

\* (np.zeros(dim) for ii in range(num_iter)) and
\* (self.params['initial_rates'] for ii in range(num_iter))
constant_generator(vector, num_iter) ==
    [kind |-> "constant", num_iter |-> num_iter, dim |-> Len(vector),
     started |-> FALSE, n |-> 0, vector |-> vector]

\* next(gen) with the process-wide generator in state s:
\* [err, value, gen, np_random]
generator_next(gen, s) ==
    IF gen.n >= gen.num_iter
    THEN [err |-> "StopIteration", value |-> <<>>, gen |-> gen, np_random |-> s]
    ELSE IF gen.kind = "constant"
    THEN [err |-> "none", value |-> gen.vector,
          gen |-> [gen EXCEPT !.started = TRUE, !.n = @ + 1], np_random |-> s]
    ELSE LET s1 == IF gen.started THEN s ELSE np_random_seed(rng_seed)
             r == np_random_rand(s1, gen.dim)
         IN  [err |-> "none", value |-> Array(scaled(r[2])),
              gen |-> [gen EXCEPT !.started = TRUE, !.n = @ + 1], np_random |-> r[1]]

(***************************************************************************)
(* Theory.integrate_siegert_python.                                        *)
(***************************************************************************)
\* np.arange(start, stop, step) for a positive step: stop is not a grid point
RECURSIVE arange(_, _, _)
RECURSIVE arange_closed(_, _, _)
\* the grid with the end point, np.arange(start, stop + step, step)
arange_closed(start, stop, step) ==
    IF start > stop THEN <<>> ELSE <<start>> \o arange_closed(start + step, stop, step)

arange(start, stop, step) ==
    IF start >= stop THEN <<>> ELSE <<start>> \o arange(start + step, stop, step)

\* np.zeros((n, dim))
zeros(n, dim) == [r \in 1..n |-> [p \in 1..dim |-> 0]]

\* y[i, :] + dt * 1e-3 / tau / d * k with tau = tau_m * 1e-3
rk_arg(y, k, dt, d) ==
    Array([p \in DOMAIN y |-> y[p] + (dt * k[p]) \div (NP.tau_m * d)])

\* y[i, :].copy() + dt * 1e-3 / 6. * (k1 + 2 * k2 + 2 * k3 + k4) / tau
rk_sum(y, k1, k2, k3, k4, dt) ==
    Array([p \in DOMAIN y |->
             y[p] + (dt * (k1[p] + 2 * k2[p] + 2 * k3[p] + k4[p])) \div (6 * NP.tau_m)])

rk_fail(p, y) ==
    [err |-> p.err, y |-> y, K_matrix |-> p.K_matrix, cc_input_rates |-> p.cc_input_rates]

\* one pass of the integration loop, lines 231-242: the four calls of Phi in
\* turn, each on the object as the call before left it
runge_kutta(mode, Kn, Jn, cc, y, dt, parallel) ==
    With(Phi(mode, Kn, Jn, cc, y, parallel, TRUE, TRUE), LAMBDA p1 :
      IF p1.err # "none" THEN rk_fail(p1, y) ELSE
      With(Phi(mode, p1.K_matrix, Jn, p1.cc_input_rates,
               rk_arg(y, p1.new_rates, dt, 2), parallel, FALSE, TRUE), LAMBDA p2 :
        IF p2.err # "none" THEN rk_fail(p2, y) ELSE
        With(Phi(mode, p2.K_matrix, Jn, p2.cc_input_rates,
                 rk_arg(y, p2.new_rates, dt, 2), parallel, FALSE, TRUE), LAMBDA p3 :
          IF p3.err # "none" THEN rk_fail(p3, y) ELSE
          With(Phi(mode, p3.K_matrix, Jn, p3.cc_input_rates,
                   rk_arg(y, p3.new_rates, dt, 1), parallel, FALSE, TRUE), LAMBDA p4 :
            IF p4.err # "none" THEN rk_fail(p4, y) ELSE
            [err |-> "none",
             y |-> rk_sum(y, p1.new_rates, p2.new_rates, p3.new_rates, p4.new_rates, dt),
             K_matrix |-> p4.K_matrix, cc_input_rates |-> p4.cc_input_rates]))))

\* y.T
transpose(y) ==
    [p \in 1..Dim |-> [r \in 1..Len(y) |-> y[r][p]]]

\* y.T[:, [0, -1]]
first_and_last(yT) ==
    [p \in DOMAIN yT |-> << yT[p][1], yT[p][Len(yT[p])] >>]

\* what one iteration appends to rates
kept(y, full_output) ==
    IF full_output THEN transpose(y) ELSE first_and_last(transpose(y))

(***************************************************************************)
(* The state: the network's matrices, the attributes the Theory object     *)
(* acquires, the process-wide numpy random state, and where the running    *)
(* call stands.                                                            *)
(***************************************************************************)
VARIABLES
    replace_cc,       \* network.params['connection_params']['replace_cc']
    built,            \* the matrices as the network collaborator built them
    K_matrix,         \* self.network.K_matrix
    J_matrix,         \* self.network.J_matrix
    cc_input_rates,   \* self.cc_input_rates
    t,                \* self.t, the time grid
    np_random,        \* the state of numpy's process-wide random generator
    params,           \* self.params: T, dt, initial_rates, initial_rates_iter
    pc,               \* where the running call stands
    pool,             \* the worker pool of a running Phi(parallel=True)
    run,              \* the locals of a running integrate_siegert_python
    ret               \* the last call: its arguments and what it returned or raised

vars == <<replace_cc, built, K_matrix, J_matrix, cc_input_rates, t, np_random,
          params, pc, pool, run, ret>>

config == <<replace_cc, built, params>>

NoPool == [units |-> <<>>, pending |-> {}, done |-> <<>>]
NoRun == [active |-> FALSE]
NoRet == [op |-> "none"]

\* the filters the callers hand in: none, everything, nothing, area V1 with
\* or without its external column
MatrixFilters ==
    { NoFilter, Filter(Pops \X Cols), Filter({1, 2} \X {1, 2, ExtCol}) }

\* <<matrix_filter, vector_filter>> as handed to stability_matrix and lambda_max:
\* neither, both (everything, nothing, area V1), one without the other, and a
\* pair whose sizes do not match
FilterPairs ==
    { <<NoFilter, NoFilter>>,
      <<Filter(Pops \X Cols), Filter(Pops)>>,
      <<Filter({}), Filter({})>>,
      <<Filter({1, 2} \X {1, 2, ExtCol}), Filter({1, 2})>>,
      <<Filter(Pops \X Cols), NoFilter>>,
      <<NoFilter, Filter({1, 2})>>,
      <<NoFilter, Filter(Pops)>>,
      <<Filter({1, 2} \X {1, 2}), Filter({1, 2})>> }

\* the rate vectors stability_matrix and lambda_max are called at
StabilityRates == { [p \in Pops |-> 0], [p \in Pops |-> MaxRate] }

\* self.params: T, dt, initial_rates (None, 'random_uniform' or an ndarray,
\* then held in vector) and initial_rates_iter
DefaultParams ==
    [T |-> 1, dt |-> 1, initial_rates |-> "None", initial_rates_iter |-> 1,
     vector |-> <<>>]

\* the vectors a configuration gives as initial_rates
ExplicitRates ==
    { [p \in Pops |-> 100 * MaxRate], [p \in Pops |-> IF p = 1 THEN 100 ELSE 0] }

IntegrationParams ==
    { [T |-> T, dt |-> dt, initial_rates |-> "None", initial_rates_iter |-> it,
       vector |-> <<>>] : T \in 0..MaxT, dt \in {1, 2}, it \in 1..MaxIter }
    \cup
    { [T |-> T, dt |-> dt, initial_rates |-> "random_uniform", initial_rates_iter |-> it,
       vector |-> <<>>] : T \in 0..MaxT, dt \in {1, 2}, it \in 1..MaxIter }
    \cup
    { [T |-> T, dt |-> dt, initial_rates |-> "ndarray", initial_rates_iter |-> 1,
       vector |-> v] : T \in 0..MaxT, dt \in {1, 2}, v \in ExplicitRates }

RandomParams == { p \in IntegrationParams : p.initial_rates = "random_uniform" }

InitObject ==
    /\ replace_cc \in ReplaceModes
    /\ \E K \in KChoices, J \in JChoices :
         /\ built = [K |-> K, J |-> J]
         /\ K_matrix = K
         /\ J_matrix = J
    /\ cc_input_rates = Unset
    /\ t = <<>>
    /\ np_random = 0
    /\ pc = "idle"
    /\ pool = NoPool
    /\ run = NoRun
    /\ ret = NoRet

Init ==
    /\ InitObject
    /\ params = DefaultParams

\* what the object and the network look like before and after a call
ObjectState == [K |-> K_matrix, J |-> J_matrix, cc |-> cc_input_rates]

Leaves(out) ==
    /\ K_matrix' = out.K_matrix
    /\ cc_input_rates' = out.cc_input_rates
    /\ UNCHANGED <<replace_cc, built, J_matrix, t, np_random, params, run>>

CallMuSigma ==
    /\ pc = "idle"
    /\ \E rates \in RateVectors, external \in BOOLEAN, matrix_filter \in MatrixFilters :
         \E out \in {mu_sigma(replace_cc, K_matrix, J_matrix, cc_input_rates, rates,
                              external, matrix_filter)} :
             /\ ret' = [op |-> "mu_sigma", rates |-> rates, external |-> external,
                        matrix_filter |-> matrix_filter, pre |-> ObjectState, out |-> out]
             /\ Leaves(out)
    /\ UNCHANGED <<pc, pool>>

CallReplaceCC ==
    /\ pc = "idle"
    /\ \E out \in {replace_cc_input(replace_cc, K_matrix, J_matrix, cc_input_rates)} :
           /\ ret' = [op |-> "replace_cc_input", out |-> out]
           /\ cc_input_rates' = out.cc_input_rates
    /\ UNCHANGED <<replace_cc, built, K_matrix, J_matrix, t, np_random, params, pc, pool, run>>

\* Phi(parallel=False)
CallPhi ==
    /\ pc = "idle"
    /\ \E rates \in RateVectors, return_mu_sigma \in BOOLEAN, return_leak \in BOOLEAN :
         \E out \in {Phi(replace_cc, K_matrix, J_matrix, cc_input_rates, rates,
                         FALSE, return_mu_sigma, return_leak)} :
             /\ ret' = [op |-> "Phi", rates |-> rates, parallel |-> FALSE,
                        return_mu_sigma |-> return_mu_sigma, return_leak |-> return_leak,
                        pre |-> ObjectState, out |-> out]
             /\ Leaves(out)
    /\ UNCHANGED <<pc, pool>>

\* Phi(parallel=True) up to pool.map: mu_sigma has run, the units are handed out
PhiPoolMap ==
    /\ pc = "idle"
    /\ \E rates \in RateVectors, return_mu_sigma \in BOOLEAN, return_leak \in BOOLEAN :
         \E ms \in {mu_sigma(replace_cc, K_matrix, J_matrix, cc_input_rates, rates,
                             TRUE, NoFilter)} :
             /\ Leaves(ms)
             /\ IF ms.err # "none"
                THEN /\ ret' = [op |-> "Phi", rates |-> rates, parallel |-> TRUE,
                                return_mu_sigma |-> return_mu_sigma,
                                return_leak |-> return_leak, pre |-> ObjectState,
                                out |-> Phi(replace_cc, K_matrix, J_matrix, cc_input_rates,
                                            rates, TRUE, return_mu_sigma, return_leak)]
                     /\ UNCHANGED <<pc, pool>>
                ELSE /\ pool' = [units |-> Zip(ms.mu, ms.sigma),
                                 pending |-> DOMAIN ms.mu, done |-> <<>>,
                                 ms |-> ms,
                                 call |-> [rates |-> rates,
                                           return_mu_sigma |-> return_mu_sigma,
                                           return_leak |-> return_leak,
                                           pre |-> ObjectState]]
                     /\ pc' = "pool"
                     /\ ret' = NoRet

\* a worker process finishes one unit and hands its value back
PoolWorker ==
    /\ pc = "pool"
    /\ \E i \in pool.pending :
         pool' = [pool EXCEPT !.pending = @ \ {i},
                              !.done = Append(@, <<i, nu0_fb(pool.units[i])>>)]
    /\ UNCHANGED <<config, K_matrix, J_matrix, cc_input_rates, t, np_random, pc, run, ret>>

\* pool.map returns; pool.close(), pool.join(); the rest of Phi
PhiPoolJoin ==
    /\ pc = "pool"
    /\ pool.pending = {}
    /\ LET c == pool.call
       IN  \E out \in {Phi_finish(pool.ms, pool_gather(pool.done), c.rates,
                                  c.return_mu_sigma, c.return_leak)} :
             ret' = [op |-> "Phi", rates |-> c.rates, parallel |-> TRUE,
                     return_mu_sigma |-> c.return_mu_sigma, return_leak |-> c.return_leak,
                     pre |-> c.pre, out |-> out]
    /\ pc' = "idle"
    /\ pool' = NoPool
    /\ UNCHANGED <<config, K_matrix, J_matrix, cc_input_rates, t, np_random, run>>

CallStabilityMatrix ==
    /\ pc = "idle"
    /\ \E rates \in StabilityRates, filters \in FilterPairs, full_output \in BOOLEAN :
         \E out \in {stability_matrix(replace_cc, K_matrix, J_matrix, cc_input_rates, rates,
                                      filters[1], filters[2], full_output)} :
             /\ ret' = [op |-> "stability_matrix", rates |-> rates,
                        matrix_filter |-> filters[1], vector_filter |-> filters[2],
                        full_output |-> full_output, out |-> out]
             /\ Leaves(out)
    /\ UNCHANGED <<pc, pool>>

CallLambdaMax ==
    /\ pc = "idle"
    /\ \E rates \in StabilityRates, filters \in FilterPairs, full_output \in BOOLEAN :
         \E out \in {lambda_max(replace_cc, K_matrix, J_matrix, cc_input_rates, rates,
                                filters[1], filters[2], full_output)} :
             /\ ret' = [op |-> "lambda_max", rates |-> rates,
                        matrix_filter |-> filters[1], vector_filter |-> filters[2],
                        full_output |-> full_output, out |-> out]
             /\ Leaves(out)
    /\ UNCHANGED <<pc, pool>>

(***************************************************************************)
(* integrate_siegert_python, one action per stretch of its code.           *)
(***************************************************************************)
\* lines 197-220: the locals and the generator of the initial conditions
IntegrateBegin ==
    /\ pc = "idle"
    /\ \E full_output \in BOOLEAN, parallel \in BOOLEAN :
         LET dim == Len(K_matrix)
             num_iter == IF params.initial_rates = "random_uniform"
                         THEN params.initial_rates_iter ELSE 1
             gen == IF params.initial_rates = "None"
                    THEN constant_generator([p \in 1..dim |-> 0], num_iter)
                    ELSE IF params.initial_rates = "random_uniform"
                    THEN initial_rates(params.initial_rates_iter, dim)
                    ELSE constant_generator(params.vector, num_iter)
         IN  run' = [active |-> TRUE, full_output |-> full_output, parallel |-> parallel,
                     dt |-> params.dt, T |-> params.T, dim |-> dim,
                     num_iter |-> num_iter, gen |-> gen, rates |-> <<>>,
                     nsim |-> 0, i |-> 0, y |-> <<>>,
                     initials |-> <<>>, steps |-> 0, log |-> <<>>,
                     pre |-> ObjectState]
    /\ pc' = "for_nsim"
    /\ ret' = NoRet
    /\ UNCHANGED <<config, K_matrix, J_matrix, cc_input_rates, t, np_random, pool>>

\* lines 222-228: the next initial condition, self.t, y and its first row
NextInitialRates ==
    /\ pc = "for_nsim"
    /\ run.nsim < run.num_iter
    /\ \E g \in {generator_next(run.gen, np_random)} :
         LET grid == arange(0, run.T, run.dt)
             fail(e) == /\ ret' = [op |-> "integrate_siegert_python",
                                   full_output |-> run.full_output,
                                   parallel |-> run.parallel,
                                   out |-> [err |-> e, value |-> <<>>],
                                   initials |-> run.initials, steps |-> run.steps,
                                   log |-> run.log]
                        /\ pc' = "idle"
                        /\ run' = NoRun
         IN  /\ np_random' = g.np_random
             /\ IF g.err # "none"
                THEN fail(g.err) /\ t' = t
                ELSE /\ t' = grid
                     /\ IF Len(grid) = 0
                        THEN fail("IndexError")
                        ELSE /\ run' = [run EXCEPT
                                          !.gen = g.gen,
                                          !.y = [zeros(Len(grid), run.dim) EXCEPT ![1] = g.value],
                                          !.i = 0,
                                          !.initials = Append(@, g.value)]
                             /\ pc' = "for_i"
                             /\ ret' = ret
    /\ UNCHANGED <<config, K_matrix, J_matrix, cc_input_rates, pool>>

\* lines 231-242: one Runge-Kutta step, from row i of y to row i + 1
RungeKuttaStep ==
    /\ pc = "for_i"
    /\ run.i < Len(t) - 1
    /\ \E s \in {runge_kutta(replace_cc, K_matrix, J_matrix, cc_input_rates,
                              run.y[run.i + 1], run.dt, run.parallel)} :
         /\ K_matrix' = s.K_matrix
         /\ cc_input_rates' = s.cc_input_rates
         /\ IF s.err # "none"
            THEN /\ ret' = [op |-> "integrate_siegert_python",
                            full_output |-> run.full_output, parallel |-> run.parallel,
                            out |-> [err |-> s.err, value |-> <<>>],
                            initials |-> run.initials, steps |-> run.steps,
                            log |-> run.log]
                 /\ pc' = "idle"
                 /\ run' = NoRun
            ELSE /\ run' = [run EXCEPT !.y[run.i + 2] = s.y,
                                       !.i = @ + 1,
                                       !.steps = @ + 1,
                                       !.log = Append(@, [nsim |-> run.nsim,
                                                          read |-> run.i,
                                                          written |-> run.i + 1])]
                 /\ UNCHANGED <<pc, ret>>
    /\ UNCHANGED <<config, J_matrix, t, np_random, pool>>

\* lines 244-248: the trajectory, or its first and last point, joins rates
AppendRates ==
    /\ pc = "for_i"
    /\ run.i >= Len(t) - 1
    /\ run' = [run EXCEPT !.rates = Append(@, kept(run.y, run.full_output)),
                          !.nsim = @ + 1]
    /\ pc' = "for_nsim"
    /\ UNCHANGED <<config, K_matrix, J_matrix, cc_input_rates, t, np_random, pool, ret>>

\* lines 250-253
IntegrateReturn ==
    /\ pc = "for_nsim"
    /\ run.nsim >= run.num_iter
    /\ ret' = [op |-> "integrate_siegert_python",
               full_output |-> run.full_output, parallel |-> run.parallel,
               out |-> [err |-> "none",
                        value |-> << structure_vec,
                                     IF run.num_iter = 1 THEN run.rates[1] ELSE run.rates >>],
               initials |-> run.initials, steps |-> run.steps, log |-> run.log]
    /\ pc' = "idle"
    /\ run' = NoRun
    /\ UNCHANGED <<config, K_matrix, J_matrix, cc_input_rates, t, np_random, pool>>

\* other code of the process draws from np.random
OtherCodeDraws ==
    /\ np_random' = np_random_rand(np_random, 1)[1]
    /\ UNCHANGED <<config, K_matrix, J_matrix, cc_input_rates, t, pc, pool, run, ret>>

\* other code of the process calls np.random.seed
OtherCodeSeeds ==
    /\ \E seed \in {0, rng_seed} : np_random' = np_random_seed(seed)
    /\ UNCHANGED <<config, K_matrix, J_matrix, cc_input_rates, t, pc, pool, run, ret>>

\* the entry points that run to completion in the caller's thread
Next ==
    \/ CallMuSigma
    \/ CallReplaceCC
    \/ CallPhi
    \/ CallStabilityMatrix
    \/ CallLambdaMax

Spec == Init /\ [][Next]_vars

\* Phi alone, with and without the worker pool
NextPhi ==
    \/ CallPhi
    \/ PhiPoolMap
    \/ PoolWorker
    \/ PhiPoolJoin

SpecPhi == Init /\ [][NextPhi]_vars

\* the integration, for every configuration of T, dt and the initial rates
InitInt ==
    /\ InitObject
    /\ params \in IntegrationParams

NextInt ==
    \/ IntegrateBegin
    \/ NextInitialRates
    \/ RungeKuttaStep
    \/ AppendRates
    \/ IntegrateReturn

SpecInt == InitInt /\ [][NextInt]_vars

\* the integration from random initial rates in a process whose other code
\* uses np.random as well
InitEnv ==
    /\ InitObject
    /\ params \in RandomParams

NextEnv ==
    \/ IntegrateBegin
    \/ NextInitialRates
    \/ RungeKuttaStep
    \/ AppendRates
    \/ IntegrateReturn
    \/ OtherCodeDraws
    \/ OtherCodeSeeds

SpecEnv == InitEnv /\ [][NextEnv]_vars

(***************************************************************************)
(* The properties of the entry points.                                     *)
(***************************************************************************)
\* C1: after any sequence of calls the network's K_matrix and J_matrix hold
\* the values they were built with.
C1_NetworkMatricesUntouched ==
    /\ K_matrix = built.K
    /\ J_matrix = built.J

\* what mu_sigma returns to its caller
Returned(out) == [err |-> out.err, mu |-> out.mu, sigma |-> out.sigma]

\* C2: every mu_sigma call returns what the first call on the freshly built
\* object returns for the same arguments.
C2_MuSigmaDeterministic ==
    ret.op = "mu_sigma" =>
        Returned(ret.out) =
            Returned(mu_sigma(replace_cc, built.K, built.J, Unset, ret.rates,
                              ret.external, ret.matrix_filter))

\* C4: in mode het_current_nonstat an entry point raises the configuration
\* error (NotImplementedError, as integrate_siegert_nest does) and returns no
\* result; stated for the calls nothing else stops, Phi and mu_sigma with
\* external=True.
C4_NonstationaryModeRaises ==
    (/\ replace_cc = "het_current_nonstat"
     /\ ret.op \in {"mu_sigma", "Phi"}
     /\ ret.op = "mu_sigma" => ret.external) =>
        ret.out.err = "NotImplementedError"

\* C5: stability_matrix and lambda_max given exactly one of matrix_filter and
\* vector_filter end in an error before mu_sigma is evaluated.
C5_FilterPairingFailsFast ==
    (/\ ret.op \in {"stability_matrix", "lambda_max"}
     /\ ret.matrix_filter.given # ret.vector_filter.given) =>
        /\ ret.out.err # "none"
        /\ ret.out.steps = <<>>

\* C8: when stability_matrix(full_output=True) has returned M with slope,
\* slope_sigma, C, V, G_N, J and N_pre, lambda_max(full_output=True) unpacks
\* that result without error.
C8_FullOutputUnpacks ==
    (/\ ret.op = "lambda_max"
     /\ ret.full_output
     /\ "slope" \in {ret.out.steps[k] : k \in DOMAIN ret.out.steps}) =>
        ret.out.err # "ValueError: too many values to unpack"

\* C11: no call to Phi, mu_sigma, stability_matrix or lambda_max fails on a
\* neuron parameter missing from NP: every key the code reads from NP is one
\* the constructor defined.
C11_NeuronParametersDefined ==
    ret.op \in {"Phi", "mu_sigma", "stability_matrix", "lambda_max"} =>
        ret.out.err # "KeyError"

\* C9: mu_sigma(r, external=False) returns, and returns the statistics of the
\* rates with a zero appended for the external channel.
C9_ExternalFalseAppendsZero ==
    (ret.op = "mu_sigma" /\ ~ret.external) =>
        /\ ret.out.err = "none"
        /\ LET st == statistics(LocalK(replace_cc, ret.pre.K, ret.matrix_filter),
                                LocalJ(ret.pre.J, ret.matrix_filter),
                                cc_term(replace_cc, ret.pre.K, ret.pre.J, ret.pre.cc, ret.rates),
                                ret.rates \o <<0>>)
           IN  ret.out.mu = st.mu /\ ret.out.sigma = st.sigma

\* C7: Phi(parallel=True) returns what Phi(parallel=False) returns from the
\* same state, whatever the order in which the workers finish; entry i is the
\* transfer function at (mu[i], sigma[i]) minus rates[i]; the caller's rates
\* are as they were.
C7_ParallelPhiEquivalent ==
    (ret.op = "Phi" /\ ret.parallel) =>
        /\ ret.out = Phi(replace_cc, ret.pre.K, ret.pre.J, ret.pre.cc, ret.rates,
                         FALSE, ret.return_mu_sigma, ret.return_leak)
        /\ ret.out.rates_after = ret.rates
        /\ (ret.out.err = "none" /\ ret.return_mu_sigma /\ ret.return_leak) =>
              \A i \in Pops :
                 ret.out.new_rates[i] = nu0_fb(<<ret.out.mu[i], ret.out.sigma[i]>>) - ret.rates[i]

\* a parallel Phi has returned a vector whose entries differ from each other
C7_Witness ==
    /\ ret.op = "Phi" /\ ret.parallel /\ ret.out.err = "none" /\ ret.return_leak
    /\ \A i, j \in Pops : i # j => ret.out.new_rates[i] # ret.out.new_rates[j]

(***************************************************************************)
(* The properties of the integration.                                      *)
(***************************************************************************)
\* the rows of y a run computes from the rows it has, on an object in state st
RECURSIVE fresh_rows(_, _, _, _, _)
fresh_rows(rows, st, n, dt, parallel) ==
    IF Len(rows) >= n \/ st.err # "none" THEN rows
    ELSE With(runge_kutta(replace_cc, st.K_matrix, built.J, st.cc_input_rates,
                          rows[Len(rows)], dt, parallel),
              LAMBDA s : fresh_rows(Append(rows, s.y), s, n, dt, parallel))

\* what a single run from v appends to rates, on the object as it was when
\* the call began
fresh_run(pre, v, n, dt, parallel, full_output) ==
    kept(fresh_rows(<<v>>, [err |-> "none", K_matrix |-> pre.K, cc_input_rates |-> pre.cc],
                    n, dt, parallel),
         full_output)

\* C3: the trajectory of every iteration is the trajectory a fresh single run
\* from the same initial vector produces: nothing the iterations before wrote
\* to the object has a part in it.
C3_IterationsIndependent ==
    run.active =>
        \A k \in DOMAIN run.rates :
           run.rates[k] = fresh_run(run.pre, run.initials[k], Len(t), run.dt,
                                    run.parallel, run.full_output)

\* the state of a private generator seeded with rng_seed after k vectors
RECURSIVE private_state(_)
private_state(k) ==
    IF k = 0 THEN np_random_seed(rng_seed)
    ELSE np_random_rand(private_state(k - 1), Dim)[1]

\* C6: the k-th vector the random_uniform generator yields is the k-th vector
\* of the stream seeded with rng_seed, whatever other code does to np.random.
C6_GeneratorStatePrivate ==
    (run.active /\ run.gen.kind = "random_uniform") =>
        \A k \in DOMAIN run.initials :
           run.initials[k] = scaled(np_random_rand(private_state(k - 1), Dim)[2])

\* the number of grid points 0, dt, 2 dt, ... below T
GridPoints == Cardinality({k \in 0..params.T : k * params.dt < params.T})

ExpectedIter ==
    IF params.initial_rates = "random_uniform" THEN params.initial_rates_iter ELSE 1

\* iteration by iteration, step i reads row i and writes row i + 1
ExpectedLog ==
    [j \in 1..(ExpectedIter * (GridPoints - 1)) |->
       [nsim |-> (j - 1) \div (GridPoints - 1),
        read |-> (j - 1) % (GridPoints - 1),
        written |-> ((j - 1) % (GridPoints - 1)) + 1]]

\* the call has returned: step count, rows read and written, shape of the result
IntegrationResult ==
    (ret.op = "integrate_siegert_python" /\ params.T > 0) =>
        /\ ret.out.err = "none"
        /\ ret.steps = ExpectedIter * (GridPoints - 1)
        /\ ret.log = ExpectedLog
        /\ Len(ret.initials) = ExpectedIter
        /\ LET items == IF ExpectedIter = 1 THEN << ret.out.value[2] >> ELSE ret.out.value[2]
           IN  /\ Len(items) = ExpectedIter
               /\ \A k \in 1..ExpectedIter : \A p \in Pops :
                     /\ items[k][p][1] = ret.initials[k][p]
                     /\ Len(items[k][p]) = IF ret.full_output THEN GridPoints ELSE 2

\* the call is under way: the loops stay within num_iter iterations of n - 1
\* steps each, and every pass of a loop counts one up
LoopProgress ==
    (run.active /\ params.T > 0) =>
        /\ run.num_iter = ExpectedIter
        /\ run.nsim <= ExpectedIter
        /\ pc = "for_nsim" => run.steps = run.nsim * (GridPoints - 1)
        /\ pc = "for_i" =>
              /\ run.nsim < ExpectedIter
              /\ run.i <= GridPoints - 1
              /\ Len(run.y) = GridPoints
              /\ run.steps = run.nsim * (GridPoints - 1) + run.i

\* an iteration has ended: what joined rates is y, or its first and last row
IterationResult ==
    (run.active /\ pc = "for_nsim" /\ run.nsim >= 1) =>
        /\ run.y[1] = run.initials[run.nsim]
        /\ run.rates[run.nsim] =
              IF run.full_output
              THEN [p \in Pops |-> [r \in 1..GridPoints |-> run.y[r][p]]]
              ELSE [p \in Pops |-> << run.initials[run.nsim][p], run.y[GridPoints][p] >>]

\* C10: for T > 0 the integration runs num_iter iterations of n - 1
\* Runge-Kutta steps, n the number of grid points below T, and returns after
\* num_iter * (n - 1) steps; step i reads row i and writes row i + 1; every
\* trajectory starts at its initial vector; without full_output an item is
\* the initial and the last point; one trajectory is returned as such,
\* several as a list.
C10_IntegrationTerminates ==
    /\ LoopProgress
    /\ IterationResult
    /\ IntegrationResult

\* a run over several initial conditions and several steps has returned the
\* first and last points
C10_Witness ==
    /\ ret.op = "integrate_siegert_python" /\ ret.out.err = "none"
    /\ ~ret.full_output
    /\ Len(ret.initials) > 1
    /\ ret.steps > Len(ret.initials)

====
